---------------------------- MODULE Spec2Model ----------------------------
(***************************************************************************)
(* Model of scripts/extract_snippets.py: one run of main(), which loads a  *)
(* snippet table, rebuilds it into a flat key -> body mapping while        *)
(* counting key collisions, and saves the mapping.                         *)
(*                                                                         *)
(* A Python str is a sequence of one-character strings.  A JSON value is a *)
(* record [t, v]: t is the Python type the parser gives it and v its       *)
(* content.  A dict is a sequence of [k, v] pairs in insertion order.      *)
(***************************************************************************)
EXTENDS Integers, Sequences, FiniteSets, TLC

VARIABLES
    input,       \* the input path's state: [exists, content, table]
    pc,          \* position of main(): "load", "build", "exit"
    data,        \* the parsed table: the entries in the mapping's order
    idx,         \* number of entries the for loop has finished
    out,         \* dict key -> body_str
    duplicates,  \* dict key -> number of overwrites
    produced,    \* per iteration started: what it did (skip, put, raise)
    outputFile,  \* the output path's state: [state, content]
    stdout,      \* the lines printed
    error,       \* the exception that ended the run, or "none"
    exitStatus   \* <<>> while running, <<s>> once the process ended with s

vars == <<input, pc, data, idx, out, duplicates, produced, outputFile,
          stdout, error, exitStatus>>

---------------------------------------------------------------------------
(* Bounds of the explored inputs *)

MaxEntries == 3
MaxTriggerLen == 2
MaxLines == 2
MaxLineLen == 1

(* Program constants *)

MaxExamples == 5
ExitFailure == 1
ExitSuccess == 0

---------------------------------------------------------------------------
(* JSON values as Python objects *)

Absent == [t |-> "absent", v |-> <<>>]
None == [t |-> "NoneType", v |-> <<>>]
PyStr(s) == [t |-> "str", v |-> s]
PyList(l) == [t |-> "list", v |-> l]
PyInt(n) == [t |-> "int", v |-> <<n>>]
PyBool(b) == [t |-> "bool", v |-> <<b>>]
PyDict(kvs) == [t |-> "dict", v |-> kvs]

\* snippet_obj.get(name): None when the key is missing
DictGetOrNone(val) == IF val.t = "absent" THEN None ELSE val

\* Python truth value of a JSON value (`not prefix`)
Truthy(val) ==
    CASE val.t = "NoneType" -> FALSE
      [] val.t = "absent" -> FALSE
      [] val.t = "int" -> val.v[1] # 0
      [] val.t = "bool" -> val.v[1]
      [] OTHER -> Len(val.v) > 0

DigitChars == <<"0", "1", "2", "3", "4", "5", "6", "7", "8", "9">>

RECURSIVE Digits(_)
\* str(n) of a natural number
Digits(n) ==
    IF n < 10 THEN <<DigitChars[n + 1]>>
    ELSE Digits(n \div 10) \o <<DigitChars[(n % 10) + 1]>>

RECURSIVE JoinTerminated(_, _)
\* every line followed by sep, the last one too
JoinTerminated(sep, strs) ==
    IF Len(strs) = 0 THEN <<>>
    ELSE strs[1] \o sep \o JoinTerminated(sep, Tail(strs))

RECURSIVE Join(_, _)
\* sep.join(strs) for a list of str
Join(sep, strs) ==
    IF Len(strs) = 0 THEN <<>>
    ELSE IF Len(strs) = 1 THEN strs[1]
    ELSE strs[1] \o sep \o Join(sep, Tail(strs))

\* str or repr of a scalar: a number, a boolean, None, or a str inside a dict
Repr(val) ==
    CASE val.t = "int" -> Digits(val.v[1])
      [] val.t = "bool" -> IF val.v[1] THEN <<"T","r","u","e">> ELSE <<"F","a","l","s","e">>
      [] val.t = "NoneType" -> <<"N","o","n","e">>
      [] val.t = "str" -> <<"'">> \o val.v \o <<"'">>

\* str(body) of a value that is neither None, list nor str
Stringify(val) ==
    IF val.t = "dict"
    THEN <<"{">>
         \o Join(<<",", " ">>,
                 [i \in 1..Len(val.v) |->
                     <<"'">> \o val.v[i].k \o <<"'", ":", " ">> \o Repr(val.v[i].v)])
         \o <<"}">>
    ELSE Repr(val)

---------------------------------------------------------------------------
(* dict operations, insertion ordered *)

DictKeys(d) == [i \in 1..Len(d) |-> d[i].k]
DictHas(d, k) == \E i \in 1..Len(d) : d[i].k = k
DictGet(d, k) == d[CHOOSE i \in 1..Len(d) : d[i].k = k].v
DictGetDefault(d, k, default) == IF DictHas(d, k) THEN DictGet(d, k) ELSE default
\* d[k] = v: an existing key keeps its position, a new key goes last
DictSet(d, k, v) ==
    IF DictHas(d, k)
    THEN [i \in 1..Len(d) |-> IF d[i].k = k THEN [k |-> k, v |-> v] ELSE d[i]]
    ELSE Append(d, [k |-> k, v |-> v])

---------------------------------------------------------------------------
(* One iteration of the for loop, lines 25-66 *)

Backslash == "\\"
Newline == "\n"

\* prefix[-1] for prefix[0]: the last trigger of a list
SelectPrefixLast(snippet_obj) ==
    LET prefix == DictGetOrNone(snippet_obj.prefix) IN
    IF ~Truthy(prefix) THEN [skip |-> TRUE, raw_key |-> None]
    ELSE IF prefix.t = "list" THEN [skip |-> FALSE, raw_key |-> prefix.v[Len(prefix.v)]]
    ELSE IF prefix.t = "str" THEN [skip |-> FALSE, raw_key |-> prefix]
    ELSE [skip |-> TRUE, raw_key |-> None]

\* lines 26-38: the raw trigger of an entry, or skip
SelectPrefix(snippet_obj) ==
    LET prefix == DictGetOrNone(snippet_obj.prefix) IN
    IF ~Truthy(prefix) THEN [skip |-> TRUE, raw_key |-> None]
    ELSE IF prefix.t = "list"
         THEN IF Len(prefix.v) = 0 THEN [skip |-> TRUE, raw_key |-> None]
              ELSE [skip |-> FALSE, raw_key |-> prefix.v[1]]
    ELSE IF prefix.t = "str" THEN [skip |-> FALSE, raw_key |-> prefix]
    ELSE [skip |-> TRUE, raw_key |-> None]

\* raw_key.startswith('\\')
StartsWithBackslash(s) == Len(s) > 0 /\ s[1] = Backslash

RECURSIVE StripBackslashes(_)
StripBackslashes(s) ==
    IF StartsWithBackslash(s) THEN StripBackslashes(SubSeq(s, 2, Len(s))) ELSE s

\* raw_key.lstrip('\\') for raw_key[1:]: every leading backslash removed
NormalizeKeyStripAll(raw_key) ==
    <<Backslash, "<">> \o StripBackslashes(raw_key) \o <<">">>

\* lines 42-51, for a raw_key that is a str
NormalizeKey(raw_key) ==
    IF StartsWithBackslash(raw_key)
    THEN <<Backslash, "<">> \o SubSeq(raw_key, 2, Len(raw_key)) \o <<">">>
    ELSE <<Backslash, "<">> \o raw_key \o <<">">>

\* lines 53-61: body_str, or the exception "\n".join raises on a non-str item
FlattenBody(snippet_obj) ==
    LET body == DictGetOrNone(snippet_obj.body) IN
    IF body.t = "NoneType" THEN [exc |-> "none", body_str |-> <<>>]
    ELSE IF body.t = "list"
         THEN IF \E i \in 1..Len(body.v) : body.v[i].t # "str"
              THEN [exc |-> "TypeError", body_str |-> <<>>]
              ELSE [exc |-> "none",
                    body_str |-> Join(<<Newline>>, [i \in 1..Len(body.v) |-> body.v[i].v])]
    ELSE IF body.t = "str" THEN [exc |-> "none", body_str |-> body.v]
    ELSE [exc |-> "none", body_str |-> Stringify(body)]

Skipped == [kind |-> "skip", key |-> <<>>, body_str |-> <<>>, exc |-> "none"]
Raised(exc) == [kind |-> "raise", key |-> <<>>, body_str |-> <<>>, exc |-> exc]
Put(key, body_str) == [kind |-> "put", key |-> key, body_str |-> body_str, exc |-> "none"]

\* what the loop body does with one entry of data
Iteration(snippet_obj) ==
    IF ~snippet_obj.isObject THEN Raised("AttributeError")     \* line 26: .get
    ELSE LET sel == SelectPrefix(snippet_obj) IN
         IF sel.skip THEN Skipped
         ELSE IF sel.raw_key.t # "str" THEN Raised("AttributeError")   \* line 42
         ELSE LET flat == FlattenBody(snippet_obj) IN
              IF flat.exc # "none" THEN Raised(flat.exc)
              ELSE Put(NormalizeKey(sel.raw_key.v), flat.body_str)

\* a counter that starts at 2: the first write counted as a collision
CountDuplicateFromWrite(dups, key) == DictSet(dups, key, DictGetDefault(dups, key, 1) + 1)

\* line 64
CountDuplicate(dups, key) == DictSet(dups, key, DictGetDefault(dups, key, 0) + 1)

\* del out[key] before out[key] = body_str: an overwritten key moves last
StoreMoveToEnd(d, key, body_str) ==
    Append(SelectSeq(d, LAMBDA kv : kv.k # key), [k |-> key, v |-> body_str])

\* out.setdefault(key, body_str): the first body is kept
StoreKeepFirst(d, key, body_str) ==
    IF DictHas(d, key) THEN d ELSE Append(d, [k |-> key, v |-> body_str])

\* line 66
Store(d, key, body_str) == DictSet(d, key, body_str)

---------------------------------------------------------------------------
(* The input files explored *)

Entry(prefix, body) == [isObject |-> TRUE, prefix |-> prefix, body |-> body]
\* an entry of the top-level mapping that is not an object (a number)
NonObjectEntry == [isObject |-> FALSE, prefix |-> Absent, body |-> Absent]

Strings(chars, n) == UNION {[1..m -> chars] : m \in 0..n}
SeqsUpTo(S, n) == UNION {[1..m -> S] : m \in 0..n}

trigA == <<"a">>
trigB == <<"b">>
textX == <<"x">>
textY == <<"y">>

\* every shape json.load can give the prefix of an entry
PrefixShapes ==
    { Absent, None, PyInt(0), PyInt(7), PyBool(TRUE), PyBool(FALSE),
      PyDict(<<>>), PyDict(<<[k |-> <<"k">>, v |-> PyInt(1)]>>),
      PyStr(<<>>), PyStr(trigA), PyStr(<<Backslash>> \o trigA),
      PyList(<<>>), PyList(<<PyStr(<<Backslash>> \o trigA), PyStr(trigB)>>),
      PyList(<<PyStr(<<>>)>>), PyList(<<PyStr(trigB), PyInt(7)>>),
      PyList(<<PyInt(7)>>), PyList(<<None>>), PyList(<<PyInt(7), PyStr(trigA)>>) }

\* every shape json.load can give the body of an entry
BodyShapes ==
    { Absent, None, PyStr(<<>>), PyStr(textX), PyList(<<>>),
      PyList(<<PyStr(textX), PyStr(textY)>>), PyList(<<PyStr(textX), PyInt(7)>>),
      PyInt(0), PyInt(42), PyBool(TRUE), PyDict(<<>>),
      PyDict(<<[k |-> <<"k">>, v |-> PyInt(1)]>>) }

ShapeEntries ==
    {Entry(p, bd) : p \in PrefixShapes, bd \in BodyShapes} \cup {NonObjectEntry}

\* one entry of any shape, alone or after a well-formed entry
ShapeTables ==
    {<<e>> : e \in ShapeEntries}
    \cup {<<Entry(PyStr(trigA), PyStr(textY)), e>> : e \in ShapeEntries}

CoreEntries ==
    {Entry(PyStr(p), PyStr(bd)) :
        p \in {trigA, <<Backslash>> \o trigA, <<Backslash, Backslash>> \o trigA, trigB, <<>>},
        bd \in {textX, textY}}

\* up to MaxEntries well-formed entries whose triggers collide or not
CollisionTables == SeqsUpTo(CoreEntries, MaxEntries)

TriggerChars == {Backslash, "a", "<", ">"}
Triggers ==
    Strings(TriggerChars, MaxTriggerLen) \cup {<<Backslash, "<", "z", ">">>}

\* two entries with any two triggers
TriggerTables ==
    {<<Entry(PyStr(s), PyStr(textX)), Entry(PyStr(t), PyStr(textY))>> :
        s \in Triggers, t \in Triggers}

LineChars == {"a", Newline}
Lines == Strings(LineChars, MaxLineLen)
BodyTexts == Strings(LineChars, MaxLines * (MaxLineLen + 1) - 1)

\* one entry whose body is a list of lines, or a text
BodyTables ==
    {<<Entry(PyStr(trigA), PyList([i \in 1..Len(L) |-> PyStr(L[i])]))>> :
        L \in SeqsUpTo(Lines, MaxLines)}
    \cup {<<Entry(PyStr(trigA), PyStr(s))>> : s \in BodyTexts}

\* MaxExamples + 1 keys, each written twice, the second round in reverse order
ManyDuplicatesTable ==
    LET n == MaxExamples + 1 IN
    [i \in 1..(2 * n) |->
        IF i <= n THEN Entry(PyStr(<<DigitChars[i + 1]>>), PyStr(textX))
        ELSE Entry(PyStr(<<DigitChars[2 * n - i + 2]>>), PyStr(textY))]

Tables ==
    ShapeTables \cup CollisionTables \cup TriggerTables \cup BodyTables
    \cup {ManyDuplicatesTable}

Inputs ==
    { [exists |-> FALSE, content |-> "none", table |-> <<>>],
      [exists |-> TRUE, content |-> "unreadable", table |-> <<>>],
      [exists |-> TRUE, content |-> "undecodable", table |-> <<>>],
      [exists |-> TRUE, content |-> "invalid", table |-> <<>>],
      [exists |-> TRUE, content |-> "notmapping", table |-> <<>>] }
    \cup {[exists |-> TRUE, content |-> "mapping", table |-> t] : t \in Tables}

---------------------------------------------------------------------------
(* The run of main() *)

NoFile == [state |-> "none", content |-> <<>>]
Line(kind, count, examples) == [kind |-> kind, count |-> count, examples |-> examples]
ErrorLine == Line("error", 0, <<>>)

Init ==
    /\ input \in Inputs
    /\ pc = "load"
    /\ data = <<>>
    /\ idx = 0
    /\ out = <<>>
    /\ duplicates = <<>>
    /\ produced = <<>>
    /\ outputFile = NoFile
    /\ stdout = <<>>
    /\ error = "none"
    /\ exitStatus = <<>>

\* sys.exit(status), or the interpreter ending on an uncaught exception
Exit(status, exc) ==
    /\ pc' = "exit"
    /\ exitStatus' = <<status>>
    /\ error' = exc

\* lines 11-13
LoadNotFound ==
    /\ pc = "load"
    /\ ~input.exists
    /\ stdout' = Append(stdout, ErrorLine)
    /\ Exit(ExitFailure, "NotFound")
    /\ UNCHANGED <<input, data, idx, out, duplicates, produced, outputFile>>

\* lines 15-17: open() or the decoding of the bytes raises; only
\* JSONDecodeError is caught
LoadReadError ==
    /\ pc = "load"
    /\ input.exists
    /\ input.content \in {"unreadable", "undecodable"}
    /\ Exit(ExitFailure,
            IF input.content = "unreadable" THEN "OSError" ELSE "UnicodeDecodeError")
    /\ UNCHANGED <<input, data, idx, out, duplicates, produced, outputFile, stdout>>

\* lines 15-20
LoadParseError ==
    /\ pc = "load"
    /\ input.exists
    /\ input.content = "invalid"
    /\ stdout' = Append(stdout, ErrorLine)
    /\ Exit(ExitFailure, "JSONDecodeError")
    /\ UNCHANGED <<input, data, idx, out, duplicates, produced, outputFile>>

\* lines 15-25: valid JSON that is no mapping has no .items()
LoadNotMapping ==
    /\ pc = "load"
    /\ input.exists
    /\ input.content = "notmapping"
    /\ Exit(ExitFailure, "AttributeError")
    /\ UNCHANGED <<input, data, idx, out, duplicates, produced, outputFile, stdout>>

\* lines 15-23
LoadOk ==
    /\ pc = "load"
    /\ input.exists
    /\ input.content = "mapping"
    /\ data' = input.table
    /\ out' = <<>>
    /\ duplicates' = <<>>
    /\ pc' = "build"
    /\ UNCHANGED <<input, idx, produced, outputFile, stdout, error, exitStatus>>

Load == LoadNotFound \/ LoadReadError \/ LoadParseError \/ LoadNotMapping \/ LoadOk

\* lines 27-28, 32-33, 37-38: continue
BuildSkip ==
    /\ pc = "build"
    /\ idx < Len(data)
    /\ LET r == Iteration(data[idx + 1]) IN
        /\ r.kind = "skip"
        /\ produced' = Append(produced, r)
    /\ idx' = idx + 1
    /\ UNCHANGED <<input, pc, data, out, duplicates, outputFile, stdout, error, exitStatus>>

\* lines 63-66
BuildPut ==
    /\ pc = "build"
    /\ idx < Len(data)
    /\ LET r == Iteration(data[idx + 1]) IN
        /\ r.kind = "put"
        /\ duplicates' = IF DictHas(out, r.key)
                         THEN CountDuplicate(duplicates, r.key)
                         ELSE duplicates
        /\ out' = Store(out, r.key, r.body_str)
        /\ produced' = Append(produced, r)
    /\ idx' = idx + 1
    /\ UNCHANGED <<input, pc, data, outputFile, stdout, error, exitStatus>>

\* an exception of line 26, 42 or 57: nothing catches it
BuildRaise ==
    /\ pc = "build"
    /\ idx < Len(data)
    /\ LET r == Iteration(data[idx + 1]) IN
        /\ r.kind = "raise"
        /\ produced' = Append(produced, r)
        /\ Exit(ExitFailure, r.exc)
    /\ UNCHANGED <<input, data, idx, out, duplicates, outputFile, stdout>>

BuildStep == BuildSkip \/ BuildPut \/ BuildRaise

\* list(duplicates.keys()) without the slice
ExamplesAll(dups) == DictKeys(dups)

\* list(duplicates.keys())[:5]
Examples(dups) ==
    SubSeq(DictKeys(dups), 1, IF Len(dups) < MaxExamples THEN Len(dups) ELSE MaxExamples)

\* lines 71-73
Report(d, dups) ==
    <<Line("success", Len(d), <<>>)>>
    \o (IF Len(dups) > 0 THEN <<Line("warning", Len(dups), Examples(dups))>> ELSE <<>>)

\* lines 68-73, then main() returns
SaveOk ==
    /\ pc = "build"
    /\ idx = Len(data)
    /\ outputFile' = [state |-> "written", content |-> out]
    /\ stdout' = stdout \o Report(out, duplicates)
    /\ Exit(ExitSuccess, "none")
    /\ UNCHANGED <<input, data, idx, out, duplicates, produced>>

\* the except branch without its sys.exit(1): main() returns normally
SaveIOErrorNoExit ==
    /\ pc = "build"
    /\ idx = Len(data)
    /\ \E st \in {"none", "partial"} : outputFile' = [state |-> st, content |-> <<>>]
    /\ stdout' = Append(stdout, ErrorLine)
    /\ Exit(ExitSuccess, "IOError")
    /\ UNCHANGED <<input, data, idx, out, duplicates, produced>>

\* lines 68-70, 74-76: open() fails (no file), or the write fails part-way
SaveIOError ==
    /\ pc = "build"
    /\ idx = Len(data)
    /\ \E st \in {"none", "partial"} : outputFile' = [state |-> st, content |-> <<>>]
    /\ stdout' = Append(stdout, ErrorLine)
    /\ Exit(ExitFailure, "IOError")
    /\ UNCHANGED <<input, data, idx, out, duplicates, produced>>

Save == SaveOk \/ SaveIOError

Next == Load \/ BuildStep \/ Save

Spec == Init /\ [][Next]_vars

---------------------------------------------------------------------------
(* What the iterations did, read from the history of the loop *)

Max(S) == CHOOSE m \in S : \A n \in S : n <= m
Range(f) == {f[i] : i \in DOMAIN f}

\* the iterations that wrote key k
Writers(k) == {j \in 1..Len(produced) : produced[j].kind = "put" /\ produced[j].key = k}
\* the keys written so far
WrittenKeys == {produced[j].key : j \in {i \in 1..Len(produced) : produced[i].kind = "put"}}
\* the top level is a mapping of objects
MappingOfObjects ==
    /\ input.exists
    /\ input.content = "mapping"
    /\ \A j \in 1..Len(input.table) : input.table[j].isObject

---------------------------------------------------------------------------
(* C1: in every state of build and after it, each key of the output table *)
(* holds the flattened body of the last entry processed so far that wrote *)
(* that key; no earlier colliding entry's body survives.                  *)
LastWriteWins ==
    /\ Range(DictKeys(out)) = WrittenKeys
    /\ \A i \in 1..Len(out) :
          /\ Writers(out[i].k) # {}
          /\ out[i].v = produced[Max(Writers(out[i].k))].body_str

\* a finished run in which a key was written twice with different bodies
LastWriteWinsWitness ==
    /\ exitStatus = <<ExitSuccess>>
    /\ \E i \in 1..Len(out) :
          \E j \in Writers(out[i].k) :
              /\ j < Max(Writers(out[i].k))
              /\ produced[j].body_str # out[i].v

(* C2: for every key written so far, the duplicate counter is absent when *)
(* the key was written once and equals (number of writes - 1) otherwise;  *)
(* no other key has a counter.                                            *)
DuplicateCounting ==
    /\ Range(DictKeys(duplicates)) \subseteq WrittenKeys
    /\ \A k \in WrittenKeys :
          IF Cardinality(Writers(k)) = 1
          THEN ~DictHas(duplicates, k)
          ELSE /\ DictHas(duplicates, k)
               /\ DictGet(duplicates, k) = Cardinality(Writers(k)) - 1
    /\ \A i, j \in 1..Len(duplicates) : duplicates[i].k = duplicates[j].k => i = j

\* a finished run with a key written three times, whose counter is 2
DuplicateCountingWitness ==
    /\ exitStatus = <<ExitSuccess>>
    /\ \E k \in WrittenKeys : Cardinality(Writers(k)) = 3 /\ DictGet(duplicates, k) = 2

(* C3: whatever the shapes of the entries of a mapping of objects, the    *)
(* run processes every entry and reaches save: it ends with no exception  *)
(* other than a write failure.                                            *)
MalformedEntriesNeverFail ==
    (MappingOfObjects /\ pc = "exit")
        => (idx = Len(data) /\ error \in {"none", "IOError"})

---------------------------------------------------------------------------
(* The trigger of an entry as the claims describe it *)

\* the prefix is a non-empty string or a non-empty sequence
UsablePrefix(e) == e.prefix.t \in {"str", "list"} /\ Len(e.prefix.v) > 0
\* the first prefix value: the string itself, or the first element
FirstPrefixValue(e) == IF e.prefix.t = "str" THEN e.prefix.v ELSE e.prefix.v[1].v
\* t without its first character when that is a backslash, else t
WithoutLeadingBackslash(t) ==
    IF Len(t) > 0 /\ t[1] = Backslash THEN [i \in 1..(Len(t) - 1) |-> t[i + 1]] ELSE t
\* key is a backslash, '<', the characters of inner in order, '>'
IsBracketed(key, inner) ==
    /\ Len(key) = Len(inner) + 3
    /\ key[1] = Backslash
    /\ key[2] = "<"
    /\ key[Len(key)] = ">"
    /\ \A i \in 1..Len(inner) : key[i + 2] = inner[i]

(* C4: the key of every entry that wrote one is backslash, '<', the       *)
(* trigger without exactly its first character when that character is a  *)
(* backslash (the whole trigger otherwise), '>'; nothing else is removed  *)
(* or escaped.                                                            *)
NormalizeKeyFirstCharOnly ==
    \A j \in 1..Len(produced) :
        produced[j].kind = "put"
            => IsBracketed(produced[j].key, WithoutLeadingBackslash(FirstPrefixValue(data[j])))

\* the bracketed trigger \<z> became \<<z>>, and of two leading
\* backslashes one was kept
NormalizeKeyFirstCharOnlyWitness ==
    /\ Len(produced) = 2
    /\ FirstPrefixValue(data[1]) = <<Backslash, "<", "z", ">">>
    /\ produced[1].key = <<Backslash, "<", "<", "z", ">", ">">>
    /\ FirstPrefixValue(data[2]) = <<Backslash, Backslash>>
    /\ produced[2].key = <<Backslash, "<", Backslash, ">">>

LoadSucceeded == input.exists /\ input.content = "mapping" /\ data = input.table
BuildFinished ==
    /\ idx = Len(data)
    /\ Len(produced) = Len(data)
    /\ \A j \in 1..Len(produced) : produced[j].kind # "raise"

(* C5: the run is load, then build, then save: an output file exists only *)
(* after load succeeded and build finished every entry; a missing or      *)
(* unparsable input ends with status 1, nothing built and no output file; *)
(* a write failure ends with status 1; status 0 means all three stages    *)
(* succeeded.                                                             *)
RunIsLinear ==
    /\ pc = "load" => (produced = <<>> /\ outputFile = NoFile /\ exitStatus = <<>>)
    /\ pc = "build" => (LoadSucceeded /\ outputFile = NoFile /\ exitStatus = <<>>)
    /\ outputFile # NoFile => (LoadSucceeded /\ BuildFinished /\ pc = "exit")
    /\ (pc = "exit" /\ (~input.exists \/ input.content \in {"invalid", "undecodable"}))
          => /\ exitStatus = <<ExitFailure>>
             /\ produced = <<>> /\ out = <<>>
             /\ outputFile = NoFile
    /\ error = "IOError" => exitStatus = <<ExitFailure>>
    /\ exitStatus = <<ExitSuccess>>
          => /\ LoadSucceeded /\ BuildFinished
             /\ error = "none"
             /\ outputFile = [state |-> "written", content |-> out]
    /\ pc = "exit" <=> exitStatus # <<>>

\* a write failure after a build that wrote keys
RunIsLinearWitness ==
    /\ error = "IOError"
    /\ exitStatus = <<ExitFailure>>
    /\ Len(out) > 1

\* the body is absent, null, a string or a sequence of strings
WellFormedBody(e) ==
    \/ e.body.t \in {"absent", "NoneType", "str"}
    \/ e.body.t = "list" /\ \A i \in 1..Len(e.body.v) : e.body.v[i].t = "str"

(* C6: an entry adds a key exactly when its prefix is a non-empty string  *)
(* or a non-empty sequence.                                               *)
SkipRule ==
    \A j \in 1..Len(produced) :
        (data[j].isObject /\ WellFormedBody(data[j]))
            => (produced[j].kind = "put" <=> UsablePrefix(data[j]))

\* the entries processed so far whose first prefix value gives key k
Sources(k) ==
    {j \in 1..idx :
        /\ data[j].isObject /\ UsablePrefix(data[j])
        /\ (data[j].prefix.t = "list" => data[j].prefix.v[1].t = "str")
        /\ IsBracketed(k, WithoutLeadingBackslash(FirstPrefixValue(data[j])))}

(* C7: every key of the output table is a non-empty string derived from   *)
(* the first prefix value of exactly one source entry.                    *)
KeysHaveExactlyOneSource ==
    \A i \in 1..Len(out) : Len(out[i].k) > 0 /\ Cardinality(Sources(out[i].k)) = 1

(* C7 as amended: every key of the output table is a non-empty string     *)
(* derived from the first prefix value of at least one source entry.      *)
KeysHaveASource ==
    \A i \in 1..Len(out) : Len(out[i].k) > 0 /\ Cardinality(Sources(out[i].k)) >= 1

\* a saved table with a key that two entries with different triggers gave
KeysHaveASourceWitness ==
    /\ exitStatus = <<ExitSuccess>>
    /\ \E i \in 1..Len(out) :
          \E j1, j2 \in Sources(out[i].k) :
              FirstPrefixValue(data[j1]) # FirstPrefixValue(data[j2])

---------------------------------------------------------------------------
RECURSIVE Offset(_, _)
\* where line i starts in the joined text: after the i - 1 lines before it
\* and one separator for each
Offset(L, i) == IF i = 1 THEN 0 ELSE Offset(L, i - 1) + Len(L[i - 1]) + 1

\* r is the lines of L in order with exactly one newline between consecutive lines
IsJoined(r, L) ==
    /\ Len(L) = 0 => Len(r) = 0
    /\ Len(L) > 0 => Len(r) = Offset(L, Len(L)) + Len(L[Len(L)])
    /\ \A i \in 1..Len(L) :
          /\ \A c \in 1..Len(L[i]) : r[Offset(L, i) + c] = L[i][c]
          /\ i < Len(L) => r[Offset(L, i) + Len(L[i]) + 1] = Newline

(* C8: a body given as a sequence of lines is stored as the lines joined  *)
(* by exactly one newline between consecutive lines; the same text given  *)
(* as a string flattens to the identical body; an absent body is stored   *)
(* as the empty string and a string body verbatim.                        *)
FlattenBodyShapes ==
    \A j \in 1..Len(produced) :
        produced[j].kind = "put" =>
            LET body == data[j].body
                r == produced[j].body_str
            IN /\ body.t = "absent" => r = <<>>
               /\ body.t = "str" => r = body.v
               /\ body.t = "list" =>
                     /\ IsJoined(r, [i \in 1..Len(body.v) |-> body.v[i].v])
                     /\ FlattenBody(Entry(data[j].prefix, PyStr(r))).body_str = r

\* a line holding a newline and an empty line were joined: two newlines
FlattenBodyShapesWitness ==
    /\ exitStatus = <<ExitSuccess>>
    /\ Len(data) = 1
    /\ data[1].body = PyList(<<PyStr(<<Newline>>), PyStr(<<>>)>>)
    /\ out[1].v = <<Newline, Newline>>

RECURSIVE FirstCollisions(_)
\* the keys written twice among the first n iterations, in the order of
\* their second write
FirstCollisions(n) ==
    IF n = 0 THEN <<>>
    ELSE LET before == FirstCollisions(n - 1) IN
         IF /\ produced[n].kind = "put"
            /\ \E j \in 1..(n - 1) : produced[j].kind = "put" /\ produced[j].key = produced[n].key
            /\ produced[n].key \notin Range(before)
         THEN Append(before, produced[n].key)
         ELSE before

Printed(kind) == {i \in 1..Len(stdout) : stdout[i].kind = kind}

(* C9: the success line is printed only once the output file is written   *)
(* and reports the number of distinct keys; with it, the duplicate warning *)
(* is printed exactly when a key collided, reports the number of distinct  *)
(* colliding keys and lists the first five of them at most, in the order   *)
(* in which they first collided.                                           *)
SuccessReport ==
    LET collided == FirstCollisions(Len(produced)) IN
    /\ \A i \in Printed("success") :
          /\ outputFile = [state |-> "written", content |-> out]
          /\ stdout[i].count = Cardinality(WrittenKeys)
          /\ (Len(collided) > 0) <=> (Printed("warning") # {})
    /\ \A i \in Printed("warning") :
          /\ i - 1 \in Printed("success")
          /\ stdout[i].count = Len(collided)
          /\ Len(stdout[i].examples) <= 5
          /\ Len(stdout[i].examples) = IF Len(collided) < 5 THEN Len(collided) ELSE 5
          /\ \A m \in 1..Len(stdout[i].examples) : stdout[i].examples[m] = collided[m]

\* six keys collided: five are listed, in the order of collision and not of
\* insertion, and the count is that of the keys, not of the entries
SuccessReportWitness ==
    /\ exitStatus = <<ExitSuccess>>
    /\ \E i \in Printed("warning") :
          /\ stdout[i].count = 6
          /\ Len(stdout[i].examples) = 5
          /\ stdout[i].examples[1] # out[1].k
    /\ \E i \in Printed("success") : stdout[i].count = 6 /\ Len(data) = 12

RECURSIVE FirstInsertions(_)
\* the keys written among the first n iterations, in the order of their
\* first write
FirstInsertions(n) ==
    IF n = 0 THEN <<>>
    ELSE LET before == FirstInsertions(n - 1) IN
         IF produced[n].kind = "put" /\ produced[n].key \notin Range(before)
         THEN Append(before, produced[n].key)
         ELSE before

(* C10: two entries give the same key exactly when their triggers are     *)
(* equal once the leading backslash of each, if it has one, is removed    *)
(* (one backslash, no more); the later of two such entries overwrites the *)
(* earlier, the key's duplicate counter is incremented, and the key keeps *)
(* the place of its first insertion in the output's key order.            *)
NormalizeKeyCollisions ==
    /\ \A i, j \in 1..Len(produced) :
          (produced[i].kind = "put" /\ produced[j].kind = "put") =>
              /\ produced[i].key = produced[j].key
                    <=> WithoutLeadingBackslash(FirstPrefixValue(data[i]))
                            = WithoutLeadingBackslash(FirstPrefixValue(data[j]))
              /\ (i < j /\ produced[i].key = produced[j].key) =>
                    /\ DictHas(duplicates, produced[j].key)
                    /\ DictGet(duplicates, produced[j].key) >= 1
                    /\ (\A m \in (j + 1)..Len(produced) : produced[m].key # produced[j].key)
                          => DictGet(out, produced[j].key) = produced[j].body_str
    /\ DictKeys(out) = FirstInsertions(Len(produced))

\* triggers a, b, \a in this order: \<a> stays first and holds the third body
NormalizeKeyCollisionsWitness ==
    /\ exitStatus = <<ExitSuccess>>
    /\ Len(data) = 3
    /\ FirstPrefixValue(data[1]) = <<"a">>
    /\ FirstPrefixValue(data[2]) = <<"b">>
    /\ FirstPrefixValue(data[3]) = <<Backslash, "a">>
    /\ DictKeys(out) = << <<Backslash, "<", "a", ">">>, <<Backslash, "<", "b", ">">> >>
    /\ out[1].v = produced[3].body_str
    /\ out[1].v # produced[1].body_str
    /\ duplicates = <<[k |-> <<Backslash, "<", "a", ">">>, v |-> 1]>>

===========================================================================
